---- MODULE Spec2Model ----
(***************************************************************************)
(* Model of the buffered delivery pipeline of go-zlog: sink.BufferedSink   *)
(* (src/sink/buffer.go) layered over a transport implementing sink.Sink.   *)
(*                                                                         *)
(* Goroutines: the writers (callers of Write and Flush), the background    *)
(* flusher started by NewBufferedSink, and one caller of Close.  A step of *)
(* the model is a maximal piece of code a goroutine runs without blocking  *)
(* or waiting on the outside world: a goroutine stops in front of the      *)
(* mutex, inside a transport WriteBatch call, inside the backoff select,   *)
(* inside the flusher's select and inside wg.Wait.                         *)
(***************************************************************************)
EXTENDS Integers, Sequences, FiniteSets, TLC

\* ---------------------------------------------------------------- bounds
MaxBufferSize == 2      \* config.BufferSize ranges over 1..MaxBufferSize
MaxMaxBatchSize == 2    \* config.MaxBatchSize ranges over 1..MaxMaxBatchSize
MaxMaxRetries == 2      \* config.MaxRetries is 0 or MaxMaxRetries
MaxWrites == 3          \* number of Write calls made in one behaviour
MaxCloseCalls == 2      \* number of Close calls made in one behaviour
MaxBatchLen == 3        \* length of the list passed to BufferedSink.WriteBatch
MaxEntries == 2         \* length of the batch passed to a transport's WriteBatch

\* DefaultConfig: RetryInterval is 1 * time.Second (the unit here is 1 s)
RetryInterval == 1

Writers == {"w1", "w2"}
Flusher == "bg"
Closer == "cl"
Workers == Writers \cup {Flusher}     \* the goroutines that take bufferMu
NoOne == "none"

VARIABLES
    config,         \* *Config: BufferSize, MaxBatchSize, MaxRetries, DropOnFull
    buffer,         \* bs.buffer, a sequence of entries (entry = its number)
    bufferMu,       \* the goroutine holding bs.bufferMu, or NoOne
    sentCount,      \* bs.sentCount
    droppedCount,   \* bs.droppedCount
    stopChan,       \* TRUE once bs.stopChan is closed
    tickerStopped,  \* TRUE once bs.flushTicker.Stop() has run
    tickPending,    \* a tick is waiting in flushTicker.C (capacity 1)
    wgDone,         \* TRUE once backgroundFlusher has run wg.Done()
    pc,             \* where each goroutine is
    site,           \* which call of flushBuffer a worker is in
    toSend,         \* flushBuffer's snapshot, per worker
    i,              \* flushBuffer's loop index, per worker
    attempt,        \* retryWriteBatch's loop counter, per worker
    retryInterval,  \* retryWriteBatch's local retryInterval, per worker
    sentAtStart,    \* bs.sentCount when the worker's flushBuffer took its snapshot
    calls,          \* transport WriteBatch calls made for the current chunk
    waits,          \* backoff waits that elapsed for the current chunk
    entry,          \* the entry of the Write a writer is in, 0 if none
    found,          \* buffer and counters as the call a writer is in found them
    todo,           \* WriteBatch: the entries (by index) not yet passed to Write
    applied,        \* WriteBatch: the entries (by index) passed to Write, in order
    results,        \* WriteBatch: what those Writes returned, but the running one
    given,          \* the config passed to the transport's constructor
    sinkKind,       \* the transport constructed: "loki", "http" or "none"
    sinkConfig,     \* the config the transport holds, NoConfig while there is none
    newErr,         \* the error the constructor returned, "none" before the call
    isHealthy,      \* the transport's isHealthy
    lastError,      \* the transport's lastError
    entries,        \* the batch the transport's caller has put together
    streams,        \* LokiSink.WriteBatch: streamMap of the last call
    response,       \* the outcome of the HTTP request of that call
    writeRet,       \* what the transport's WriteBatch returned for `entries`
    postedTo,       \* the URLs HTTP requests were sent to
    evt,            \* what the last step did: who, which return, which chunk end
    nextId,         \* number of Write calls made so far
    accepted,       \* the entries Write appended to bs.buffer
    delivered,      \* entries of the transport calls that returned nil, in order
    sinkCloses,     \* number of calls of the transport's Close
    closeCalls,     \* number of calls of BufferedSink.Close
    anyFail,        \* some transport WriteBatch call has returned an error
    anyFlush,       \* some Flush (explicit, timer or final) has been called
    lateWrite,      \* some Write was in progress at, or called after, a Close call
    panicked        \* the process died of a panic

shared == <<config, buffer, bufferMu, sentCount, droppedCount>>
signals == <<stopChan, tickerStopped, tickPending, wgDone>>
locals == <<site, toSend, i, attempt, retryInterval, sentAtStart, calls, waits>>
callinfo == <<entry, found>>
batchcall == <<todo, applied, results>>
transport ==
    <<given, sinkKind, sinkConfig, newErr, isHealthy, lastError, entries,
      streams, response, writeRet, postedTo>>
ghosts ==
    <<nextId, accepted, delivered, sinkCloses, closeCalls, anyFail, anyFlush,
      lateWrite>>
vars ==
    <<shared, signals, pc, locals, callinfo, batchcall, transport, evt, ghosts,
      panicked>>

\* ---------------------------------------------------------------- helpers
Min(a, b) == IF a < b THEN a ELSE b

Range(s) == {s[k] : k \in 1..Len(s)}

\* the last n elements of s
Suffix(s, n) == SubSeq(s, Len(s) - n + 1, Len(s))

RECURSIVE Pow2(_)
Pow2(n) == IF n = 0 THEN 1 ELSE 2 * Pow2(n - 1)

\* the configurations explored: Config with 1 <= BufferSize, 1 <= MaxBatchSize
Configs ==
    [BufferSize : 1..MaxBufferSize, MaxBatchSize : 1..MaxMaxBatchSize,
     MaxRetries : {0, MaxMaxRetries}, DropOnFull : BOOLEAN]

\* flushBuffer: end := i + MaxBatchSize, clipped to len(toSend)
ChunkEnd(p) == Min(i[p] + config.MaxBatchSize, Len(toSend[p]))

\* mutant: the chunk is all that is left of the snapshot
BatchWhole(p) == SubSeq(toSend[p], i[p] + 1, Len(toSend[p]))

\* mutant: the chunk is cut to its first entry
BatchOfOne(p) == SubSeq(toSend[p], i[p] + 1, i[p] + 1)

\* flushBuffer: batch := toSend[i:end]
Batch(p) == SubSeq(toSend[p], i[p] + 1, ChunkEnd(p))

\* no Write or Flush is in progress and the flusher is not flushing: every
\* one of them holds bufferMu from its first to its last statement
AtRest == bufferMu = NoOne

\* mutant: buffered reports the capacity of the buffer, not its length
StatsCapacity ==
    [sent |-> sentCount, dropped |-> droppedCount, buffered |-> config.BufferSize]

\* Stats(): sent, dropped and buffered, read under bufferMu
Stats ==
    [sent |-> sentCount, dropped |-> droppedCount, buffered |-> Len(buffer)]

\* what a call finds when it gets bufferMu; `failed` becomes TRUE when a
\* transport attempt made during the call fails
Found ==
    [sent |-> sentCount, dropped |-> droppedCount, buffer |-> buffer,
     failed |-> FALSE]
NoState == [sent |-> 0, dropped |-> 0, buffer |-> <<>>, failed |-> FALSE]

\* mutant: the capacity test lets one entry too many in
BufferFullLate(buf) == Len(buf) > config.BufferSize

\* Write: if len(bs.buffer) >= bs.config.BufferSize
BufferFull(buf) == Len(buf) >= config.BufferSize

\* mutant: the batch threshold is reached one entry late
BatchReachedLate(buf) == Len(buf) > config.MaxBatchSize

\* Write: if len(bs.buffer) >= bs.config.MaxBatchSize
BatchReached(buf) == Len(buf) >= config.MaxBatchSize

\* evt: `who` took the step; `ret` is what the call that returned in it
\* returned ("none": no call returned), `from` the place it returned from;
\* `chunk` is how retryWriteBatch ended in it ("none": it did not end);
\* `batch` is what the WriteBatch that returned in it returned ("none": none did)
\* retryWriteBatch: the transport calls made for p's chunk, the one p is in
\* (its outcome ends the step) included
Tries(p) == calls[p] + (IF pc[p] = "attempt" THEN 1 ELSE 0)

\* `tries` is the number of transport calls made for the chunk that ended
Event(who, from, r, ch) ==
    [who |-> who, from |-> from, ret |-> r, chunk |-> ch, batch |-> "none",
     tries |-> IF ch = "none" THEN 0 ELSE Tries(who)]
NoEvent(who) == Event(who, "none", "none", "none")

\* a nil *LokiSinkConfig / *HTTPSinkConfig; also: no config at all
NoConfig == [isNil |-> TRUE]

\* no HTTP request was made; a request ends in a network error (err) or in
\* a response with a status code
NoResponse == [err |-> FALSE, status |-> 0]

\* ------------------------------------------------------------------- Init
\* NewBufferedSink: an empty buffer, a running ticker, an open stopChan and the
\* background flusher started (wg.Add(1); go bs.backgroundFlusher()).
Init ==
    /\ config \in Configs
    /\ buffer = <<>>
    /\ bufferMu = NoOne
    /\ sentCount = 0
    /\ droppedCount = 0
    /\ stopChan = FALSE
    /\ tickerStopped = FALSE
    /\ tickPending = FALSE
    /\ wgDone = FALSE
    /\ pc = [p \in Workers \cup {Closer} |->
                IF p = Flusher THEN "select" ELSE "idle"]
    /\ site = [p \in Workers |-> "none"]
    /\ toSend = [p \in Workers |-> <<>>]
    /\ i = [p \in Workers |-> 0]
    /\ attempt = [p \in Workers |-> 0]
    /\ retryInterval = [p \in Workers |-> 0]
    /\ sentAtStart = [p \in Workers |-> 0]
    /\ calls = [p \in Workers |-> 0]
    /\ waits = [p \in Workers |-> <<>>]
    /\ entry = [w \in Writers |-> 0]
    /\ found = [w \in Writers |-> NoState]
    /\ todo = [w \in Writers |-> <<>>]
    /\ applied = [w \in Writers |-> <<>>]
    /\ results = [w \in Writers |-> <<>>]
    /\ given = NoConfig
    /\ sinkKind = "none"
    /\ sinkConfig = NoConfig
    /\ newErr = "none"
    /\ isHealthy = FALSE
    /\ lastError = "nil"
    /\ entries = <<>>
    /\ streams = <<>>
    /\ response = NoResponse
    /\ writeRet = "none"
    /\ postedTo = {}
    /\ evt = NoEvent(NoOne)
    /\ nextId = 0
    /\ accepted = {}
    /\ delivered = <<>>
    /\ sinkCloses = 0
    /\ closeCalls = 0
    /\ anyFail = FALSE
    /\ anyFlush = FALSE
    /\ lateWrite = FALSE
    /\ panicked = FALSE

\* ------------------------------------------- the code run under bufferMu
\* Each operator below is the rest of a call from some point on, given the
\* values buf, sent, drop, acc that bs.buffer, bs.sentCount, bs.droppedCount
\* and the set of appended entries have at that point, and how the chunk
\* handled in this step ended (ch).  It fixes the next value of the variables
\* in `shared` (but config), `locals` and `callinfo`, of pc, evt, accepted and
\* wgDone.

\* writer p is inside a WriteBatch: from the call on, the list of the
\* entries passed to Write is not empty
InBatch(p) == p \in Writers /\ applied[p] # <<>>

\* mutant: WriteBatch goes through the whole list whatever Write returns
BatchEndsAtEnd(err, rest) == rest = <<>>

\* WriteBatch: `if err := bs.Write(ctx, entry); err != nil { return err }`,
\* and `return nil` after the last entry
BatchEnds(err, rest) == err # "nil" \/ rest = <<>>

\* the Write that returns err to p is followed by the Write of the next entry
BatchGoesOn(p, err) == InBatch(p) /\ ~BatchEnds(err, todo[p])

\* mutant: the background flusher gives up after a flush that failed
FlusherNextStopsOnError(s, err) ==
    IF s = "final" \/ err # "nil" THEN "done" ELSE "select"

\* backgroundFlusher after its Flush returned err (`_ = bs.Flush(ctx)`): back
\* to the select after a tick, return after the final flush
FlusherNext(s, err) == IF s = "final" THEN "done" ELSE "select"

\* Write / Flush return err from the place s (deferred bufferMu.Unlock());
\* the flusher goes back to its select after a tick and runs wg.Done() after
\* the final flush.
Return(p, s, err, buf, sent, drop, acc, ch) ==
    /\ buffer' = buf
    /\ sentCount' = sent
    /\ droppedCount' = drop
    /\ accepted' = acc
    /\ bufferMu' = NoOne
    /\ pc' = [pc EXCEPT ![p] = IF p = Flusher
                                 THEN FlusherNext(s, err)
                                 ELSE IF BatchGoesOn(p, err) THEN "lock" ELSE "idle"]
    /\ wgDone' = IF p = Flusher /\ s = "final" THEN TRUE ELSE wgDone
    /\ evt' = [Event(p, s, err, ch) EXCEPT
                  !.batch = IF InBatch(p) /\ ~BatchGoesOn(p, err)
                            THEN err ELSE "none"]
    /\ IF BatchGoesOn(p, err)
       THEN /\ applied' = [applied EXCEPT ![p] = Append(applied[p], Head(todo[p]))]
            /\ todo' = [todo EXCEPT ![p] = Tail(todo[p])]
            /\ results' = [results EXCEPT ![p] = Append(results[p], err)]
       ELSE IF InBatch(p)
            THEN /\ applied' = [applied EXCEPT ![p] = <<>>]
                 /\ todo' = [todo EXCEPT ![p] = <<>>]
                 /\ results' = [results EXCEPT ![p] = <<>>]
            ELSE UNCHANGED batchcall
    /\ UNCHANGED transport
    /\ site' = [site EXCEPT ![p] = "none"]
    /\ toSend' = [toSend EXCEPT ![p] = <<>>]
    /\ i' = [i EXCEPT ![p] = 0]
    /\ attempt' = [attempt EXCEPT ![p] = 0]
    /\ retryInterval' = [retryInterval EXCEPT ![p] = 0]
    /\ sentAtStart' = [sentAtStart EXCEPT ![p] = 0]
    /\ calls' = [calls EXCEPT ![p] = 0]
    /\ waits' = [waits EXCEPT ![p] = <<>>]
    /\ entry' = IF p \in Writers THEN [entry EXCEPT ![p] = 0] ELSE entry
    /\ found' = IF p \in Writers THEN [found EXCEPT ![p] = NoState] ELSE found

\* mutant: the snapshot is taken but the live buffer is not cleared
SnapshotKeepsBuffer(p, s, e, bef, buf, sent, drop, acc, ch) ==
    /\ toSend' = [toSend EXCEPT ![p] = buf]
    /\ buffer' = buf
    /\ sentCount' = sent
    /\ droppedCount' = drop
    /\ accepted' = acc
    /\ bufferMu' = p
    /\ pc' = [pc EXCEPT ![p] = "attempt"]
    /\ site' = [site EXCEPT ![p] = s]
    /\ i' = [i EXCEPT ![p] = 0]
    /\ attempt' = [attempt EXCEPT ![p] = 0]
    /\ retryInterval' = [retryInterval EXCEPT ![p] = RetryInterval]
    /\ sentAtStart' = [sentAtStart EXCEPT ![p] = sent]
    /\ calls' = [calls EXCEPT ![p] = 0]
    /\ waits' = [waits EXCEPT ![p] = <<>>]
    /\ evt' = Event(p, "none", "none", ch)
    /\ wgDone' = wgDone
    /\ entry' = IF p \in Writers THEN [entry EXCEPT ![p] = e] ELSE entry
    /\ found' = IF p \in Writers THEN [found EXCEPT ![p] = bef] ELSE found
    /\ UNCHANGED <<batchcall, transport>>

\* mutant: the snapshot takes only the first chunk and leaves the rest
SnapshotPrefix(p, s, e, bef, buf, sent, drop, acc, ch) ==
    /\ toSend' = [toSend EXCEPT ![p] = SubSeq(buf, 1, Min(config.MaxBatchSize, Len(buf)))]
    /\ buffer' = SubSeq(buf, Min(config.MaxBatchSize, Len(buf)) + 1, Len(buf))
    /\ sentCount' = sent
    /\ droppedCount' = drop
    /\ accepted' = acc
    /\ bufferMu' = p
    /\ pc' = [pc EXCEPT ![p] = "attempt"]
    /\ site' = [site EXCEPT ![p] = s]
    /\ i' = [i EXCEPT ![p] = 0]
    /\ attempt' = [attempt EXCEPT ![p] = 0]
    /\ retryInterval' = [retryInterval EXCEPT ![p] = RetryInterval]
    /\ sentAtStart' = [sentAtStart EXCEPT ![p] = sent]
    /\ calls' = [calls EXCEPT ![p] = 0]
    /\ waits' = [waits EXCEPT ![p] = <<>>]
    /\ evt' = Event(p, "none", "none", ch)
    /\ wgDone' = wgDone
    /\ entry' = IF p \in Writers THEN [entry EXCEPT ![p] = e] ELSE entry
    /\ found' = IF p \in Writers THEN [found EXCEPT ![p] = bef] ELSE found
    /\ UNCHANGED <<batchcall, transport>>

\* flushBuffer on a non-empty buffer: copy it to toSend, clear it, and enter
\* retryWriteBatch for the first chunk (attempt 0 calls the transport at once).
\* e and bef are the entry of the writer's call and the state it found.
Snapshot(p, s, e, bef, buf, sent, drop, acc, ch) ==
    /\ toSend' = [toSend EXCEPT ![p] = buf]
    /\ buffer' = <<>>
    /\ sentCount' = sent
    /\ droppedCount' = drop
    /\ accepted' = acc
    /\ bufferMu' = p
    /\ pc' = [pc EXCEPT ![p] = "attempt"]
    /\ site' = [site EXCEPT ![p] = s]
    /\ i' = [i EXCEPT ![p] = 0]
    /\ attempt' = [attempt EXCEPT ![p] = 0]
    /\ retryInterval' = [retryInterval EXCEPT ![p] = RetryInterval]
    /\ sentAtStart' = [sentAtStart EXCEPT ![p] = sent]
    /\ calls' = [calls EXCEPT ![p] = 0]
    /\ waits' = [waits EXCEPT ![p] = <<>>]
    /\ evt' = Event(p, "none", "none", ch)
    /\ wgDone' = wgDone
    /\ entry' = IF p \in Writers THEN [entry EXCEPT ![p] = e] ELSE entry
    /\ found' = IF p \in Writers THEN [found EXCEPT ![p] = bef] ELSE found
    /\ UNCHANGED <<batchcall, transport>>

\* flushBuffer: an empty buffer returns nil at once, anything else is sent
FlushBuffer(p, s, e, bef, buf, sent, drop, acc, ch) ==
    IF Len(buf) = 0
    THEN Return(p, s, "nil", buf, sent, drop, acc, ch)
    ELSE Snapshot(p, s, e, bef, buf, sent, drop, acc, ch)

\* Write from `bs.buffer = append(bs.buffer, entry)` on
AppendEntry(p, e, bef, buf, sent, drop, ch) ==
    LET buf2 == Append(buf, e)
        acc2 == accepted \cup {e}
    IN  IF BatchReached(buf2)
        THEN FlushBuffer(p, "batch", e, bef, buf2, sent, drop, acc2, ch)
        ELSE Return(p, "append", "nil", buf2, sent, drop, acc2, ch)

\* mutant: the entry is forgotten after the capacity-triggered flush
FlushReturnedNoAppend(p, err, buf, sent, drop, ch) ==
    Return(p, site[p], err, buf, sent, drop, accepted, ch)

\* mutant: the error of the flush is swallowed by its caller
FlushReturnedSwallow(p, err, buf, sent, drop, ch) ==
    IF site[p] = "full" /\ err = "nil"
    THEN AppendEntry(p, entry[p], found[p], buf, sent, drop, ch)
    ELSE Return(p, site[p], "nil", buf, sent, drop, accepted, ch)

\* mutant: the entry is appended although the capacity-triggered flush failed
FlushReturnedAppendsAnyway(p, err, buf, sent, drop, ch) ==
    IF site[p] = "full"
    THEN AppendEntry(p, entry[p], found[p], buf, sent, drop, ch)
    ELSE Return(p, site[p], err, buf, sent, drop, accepted, ch)

\* flushBuffer has returned err to the code that called it
FlushReturned(p, err, buf, sent, drop, ch) ==
    IF site[p] = "full" /\ err = "nil"
    THEN AppendEntry(p, entry[p], found[p], buf, sent, drop, ch)
    ELSE Return(p, site[p], err, buf, sent, drop, accepted, ch)

\* mutant: the flush ends after the first chunk that was sent
ChunkSentStops(p, ch) ==
    FlushReturned(p, "nil", buffer, sentCount + Len(Batch(p)), droppedCount, ch)

\* flushBuffer after retryWriteBatch returned nil for the chunk at i
ChunkSent(p, ch) ==
    LET sent1 == sentCount + Len(Batch(p))
    IN  IF i[p] + config.MaxBatchSize < Len(toSend[p])
        THEN /\ i' = [i EXCEPT ![p] = i[p] + config.MaxBatchSize]
             /\ sentCount' = sent1
             /\ attempt' = [attempt EXCEPT ![p] = 0]
             /\ retryInterval' = [retryInterval EXCEPT ![p] = RetryInterval]
             /\ calls' = [calls EXCEPT ![p] = 0]
             /\ waits' = [waits EXCEPT ![p] = <<>>]
             /\ pc' = [pc EXCEPT ![p] = "attempt"]
             /\ evt' = Event(p, "none", "none", ch)
             /\ UNCHANGED <<buffer, droppedCount, accepted, bufferMu, site,
                            toSend, sentAtStart, callinfo, batchcall, transport, wgDone>>
        ELSE FlushReturned(p, "nil", buffer, sent1, droppedCount, ch)

\* mutant: the failing chunk and all the chunks after it are put back
ChunkFailedRequeueRest(p, err, ch) ==
    IF ~config.DropOnFull
    THEN FlushReturned(p, err, buffer \o SubSeq(toSend[p], i[p] + 1, Len(toSend[p])),
                       sentCount, droppedCount, ch)
    ELSE FlushReturned(p, err, buffer, sentCount,
                       droppedCount + Len(toSend[p]) - i[p], ch)

\* mutant: the chunks after the failing one are counted as dropped
ChunkFailedDropsRest(p, err, ch) ==
    IF ~config.DropOnFull
    THEN FlushReturned(p, err, buffer \o Batch(p), sentCount,
                       droppedCount + Len(toSend[p]) - ChunkEnd(p), ch)
    ELSE FlushReturned(p, err, buffer, sentCount,
                       droppedCount + Len(toSend[p]) - i[p], ch)

\* mutant: after a failed chunk the whole snapshot is put back
ChunkFailedRequeueAll(p, err, ch) ==
    IF ~config.DropOnFull
    THEN FlushReturned(p, err, buffer \o toSend[p], sentCount, droppedCount, ch)
    ELSE FlushReturned(p, err, buffer, sentCount, droppedCount + Len(Batch(p)), ch)

\* mutant: a failed chunk is put back with DropOnFull too
ChunkFailedAlwaysRequeues(p, err, ch) ==
    IF ~config.DropOnFull
    THEN FlushReturned(p, err, buffer \o Batch(p), sentCount, droppedCount, ch)
    ELSE FlushReturned(p, err, buffer \o Batch(p), sentCount,
                       droppedCount + Len(Batch(p)), ch)

\* flushBuffer after retryWriteBatch returned the error err for the chunk at i
ChunkFailed(p, err, ch) ==
    IF ~config.DropOnFull
    THEN FlushReturned(p, err, buffer \o Batch(p), sentCount, droppedCount, ch)
    ELSE FlushReturned(p, err, buffer, sentCount, droppedCount + Len(Batch(p)), ch)

\* ---------------------------------------------------------------- writers
\* Write(ctx, entry) from bufferMu.Lock() on: the caller gets bufferMu and
\* runs up to the first transport call, or to the return when there is none.
Write(w) ==
    /\ ~panicked
    /\ bufferMu = NoOne
    /\ nextId < MaxWrites
    /\ nextId' = nextId + 1
    /\ lateWrite' = (lateWrite \/ stopChan)
    /\ IF BufferFull(buffer)
       THEN IF config.DropOnFull
            THEN Return(w, "drop", "nil", buffer, sentCount, droppedCount + 1,
                        accepted, "none")
            ELSE FlushBuffer(w, "full", nextId + 1, Found, buffer, sentCount,
                             droppedCount, accepted, "none")
       ELSE AppendEntry(w, nextId + 1, Found, buffer, sentCount, droppedCount,
                        "none")
    /\ UNCHANGED <<config, stopChan, tickerStopped, tickPending, delivered,
                   sinkCloses, closeCalls, anyFail, anyFlush, panicked>>

\* Write(ctx, entry) called by a writer goroutine
WriteCall(w) ==
    /\ pc[w] = "idle"
    /\ Write(w)

\* WriteBatch(ctx, entries) called by a writer goroutine with a list of n
\* entries: `for _, entry := range entries` up to the Lock of the first
\* Write; an empty list returns nil at once
WriteBatchCall(w) ==
    /\ ~panicked
    /\ pc[w] = "idle"
    /\ \E n \in 0..MaxBatchLen :
         LET list == [k \in 1..n |-> k]
         IN  IF n = 0
             THEN /\ evt' = [NoEvent(w) EXCEPT !.batch = "nil"]
                  /\ UNCHANGED <<pc, batchcall>>
             ELSE /\ nextId + n <= MaxWrites
                  /\ applied' = [applied EXCEPT ![w] = <<Head(list)>>]
                  /\ todo' = [todo EXCEPT ![w] = Tail(list)]
                  /\ pc' = [pc EXCEPT ![w] = "lock"]
                  /\ evt' = NoEvent(w)
                  /\ UNCHANGED results
    /\ UNCHANGED <<shared, signals, locals, callinfo, transport, ghosts,
                   panicked>>

\* the Write of the next entry of a WriteBatch gets bufferMu
BatchWrite(w) ==
    /\ pc[w] = "lock"
    /\ Write(w)

\* Flush(ctx) called by a writer goroutine
FlushCall(w) ==
    /\ ~panicked
    /\ pc[w] = "idle"
    /\ bufferMu = NoOne
    /\ anyFlush' = TRUE
    /\ FlushBuffer(w, "flush", 0, Found, buffer, sentCount, droppedCount,
                   accepted, "none")
    /\ UNCHANGED <<config, stopChan, tickerStopped, tickPending, nextId,
                   delivered, sinkCloses, closeCalls, anyFail, lateWrite,
                   panicked>>

\* ------------------------------------------------------- retryWriteBatch
\* bs.sink.WriteBatch(writeCtx, batch) returns nil
AttemptOk(p) ==
    /\ ~panicked
    /\ pc[p] = "attempt"
    /\ delivered' = delivered \o Batch(p)
    /\ ChunkSent(p, "nil")
    /\ UNCHANGED <<config, stopChan, tickerStopped, tickPending, nextId,
                   sinkCloses, closeCalls, anyFail, anyFlush, lateWrite,
                   panicked>>

\* mutant: MaxRetries counts the attempts, not the retries
MoreAttemptsShort(p) == attempt[p] + 1 < config.MaxRetries

\* the for loop of retryWriteBatch goes on after a failed attempt
MoreAttempts(p) == attempt[p] + 1 <= config.MaxRetries

\* bs.sink.WriteBatch(writeCtx, batch) returns an error: lastErr = err and
\* attempt++; the loop either enters the backoff select or ends
AttemptFail(p) ==
    /\ ~panicked
    /\ pc[p] = "attempt"
    /\ anyFail' = TRUE
    /\ IF MoreAttempts(p)
       THEN /\ pc' = [pc EXCEPT ![p] = "backoff"]
            /\ attempt' = [attempt EXCEPT ![p] = attempt[p] + 1]
            /\ calls' = [calls EXCEPT ![p] = calls[p] + 1]
            /\ evt' = NoEvent(p)
            /\ found' = IF p \in Writers
                        THEN [found EXCEPT ![p].failed = TRUE]
                        ELSE found
            /\ UNCHANGED <<buffer, bufferMu, sentCount, droppedCount, site,
                           toSend, i, retryInterval, sentAtStart, waits,
                           entry, accepted, wgDone, batchcall, transport>>
       ELSE ChunkFailed(p, "err", "err")
    /\ UNCHANGED <<config, stopChan, tickerStopped, tickPending, nextId,
                   delivered, sinkCloses, closeCalls, anyFlush, lateWrite,
                   panicked>>

\* select: <-time.After(retryInterval) fires first; retryInterval *= 2.
\* A goroutine waiting in the select is woken by the first event, so the
\* timer wins only while stopChan is still open.
BackoffTimer(p) ==
    /\ ~panicked
    /\ pc[p] = "backoff"
    /\ ~stopChan
    /\ waits' = [waits EXCEPT ![p] = Append(waits[p], retryInterval[p])]
    /\ retryInterval' = [retryInterval EXCEPT ![p] = retryInterval[p] * 2]
    /\ pc' = [pc EXCEPT ![p] = "attempt"]
    /\ evt' = NoEvent(p)
    /\ UNCHANGED <<shared, signals, site, toSend, i, attempt, sentAtStart,
                   calls, callinfo, batchcall, transport, ghosts, panicked>>

\* select: <-ctx.Done() (cancellation, or the flusher's timeout): return ctx.Err()
BackoffCtx(p) ==
    /\ ~panicked
    /\ pc[p] = "backoff"
    /\ ChunkFailed(p, "ctx", "ctx")
    /\ UNCHANGED <<config, stopChan, tickerStopped, tickPending, nextId,
                   delivered, sinkCloses, closeCalls, anyFail, anyFlush,
                   lateWrite, panicked>>

\* mutant: the shutdown signal ends the wait, and the chunk is tried again
BackoffStopRetries(p) ==
    /\ ~panicked
    /\ pc[p] = "backoff"
    /\ stopChan
    /\ pc' = [pc EXCEPT ![p] = "attempt"]
    /\ evt' = NoEvent(p)
    /\ UNCHANGED <<shared, signals, locals, callinfo, batchcall, transport,
                   ghosts, panicked>>

\* select: <-bs.stopChan: return nil
BackoffStop(p) ==
    /\ ~panicked
    /\ pc[p] = "backoff"
    /\ stopChan
    /\ ChunkSent(p, "stop")
    /\ UNCHANGED <<config, stopChan, tickerStopped, tickPending, nextId,
                   delivered, sinkCloses, closeCalls, anyFail, anyFlush,
                   lateWrite, panicked>>

\* ------------------------------------------------------ backgroundFlusher
\* the runtime puts a tick into flushTicker.C
Tick ==
    /\ ~panicked
    /\ ~tickerStopped
    /\ ~tickPending
    /\ tickPending' = TRUE
    /\ evt' = NoEvent(NoOne)
    /\ UNCHANGED <<shared, stopChan, tickerStopped, wgDone, pc, locals,
                   callinfo, batchcall, transport, ghosts, panicked>>

\* select: case <-bs.flushTicker.C
SelectTick ==
    /\ ~panicked
    /\ pc[Flusher] = "select"
    /\ tickPending
    /\ tickPending' = FALSE
    /\ pc' = [pc EXCEPT ![Flusher] = "lock"]
    /\ site' = [site EXCEPT ![Flusher] = "tick"]
    /\ evt' = NoEvent(Flusher)
    /\ UNCHANGED <<shared, stopChan, tickerStopped, wgDone, toSend, i, attempt,
                   retryInterval, sentAtStart, calls, waits, callinfo, batchcall, transport, ghosts,
                   panicked>>

\* mutant: the flusher exits at the shutdown signal without a final flush
SelectStopNoFlush ==
    /\ ~panicked
    /\ pc[Flusher] = "select"
    /\ stopChan
    /\ pc' = [pc EXCEPT ![Flusher] = "done"]
    /\ wgDone' = TRUE
    /\ evt' = NoEvent(Flusher)
    /\ UNCHANGED <<shared, stopChan, tickerStopped, tickPending, locals,
                   callinfo, batchcall, transport, ghosts, panicked>>

\* mutant: the flusher's select has no stopChan case
SelectStopMissing ==
    /\ pc[Flusher] = "select"
    /\ stopChan
    /\ FALSE
    /\ UNCHANGED vars

\* select: case <-bs.stopChan
SelectStop ==
    /\ ~panicked
    /\ pc[Flusher] = "select"
    /\ stopChan
    /\ pc' = [pc EXCEPT ![Flusher] = "lock"]
    /\ site' = [site EXCEPT ![Flusher] = "final"]
    /\ evt' = NoEvent(Flusher)
    /\ UNCHANGED <<shared, signals, toSend, i, attempt, retryInterval,
                   sentAtStart, calls, waits, callinfo, batchcall, transport, ghosts, panicked>>

\* mutant: the flusher's Flush does not take bufferMu
FlusherFlushNoLock ==
    /\ ~panicked
    /\ pc[Flusher] = "lock"
    /\ anyFlush' = TRUE
    /\ FlushBuffer(Flusher, site[Flusher], 0, NoState, buffer, sentCount,
                   droppedCount, accepted, "none")
    /\ UNCHANGED <<config, stopChan, tickerStopped, tickPending, nextId,
                   delivered, sinkCloses, closeCalls, anyFail, lateWrite,
                   panicked>>

\* _ = bs.Flush(ctx): the flusher gets bufferMu
FlusherFlush ==
    /\ ~panicked
    /\ pc[Flusher] = "lock"
    /\ bufferMu = NoOne
    /\ anyFlush' = TRUE
    /\ FlushBuffer(Flusher, site[Flusher], 0, NoState, buffer, sentCount,
                   droppedCount, accepted, "none")
    /\ UNCHANGED <<config, stopChan, tickerStopped, tickPending, nextId,
                   delivered, sinkCloses, closeCalls, anyFail, lateWrite,
                   panicked>>

\* ------------------------------------------------------------------ Close
\* close(bs.stopChan); closing a closed channel panics
CloseCall ==
    /\ ~panicked
    /\ pc[Closer] = "idle"
    /\ closeCalls < MaxCloseCalls
    /\ closeCalls' = closeCalls + 1
    /\ lateWrite' = (lateWrite \/ \E w \in Writers : entry[w] # 0)
    /\ evt' = NoEvent(Closer)
    /\ IF stopChan
       THEN /\ panicked' = TRUE
            /\ UNCHANGED <<stopChan, pc>>
       ELSE /\ stopChan' = TRUE
            /\ pc' = [pc EXCEPT ![Closer] = "stopTicker"]
            /\ UNCHANGED panicked
    /\ UNCHANGED <<shared, tickerStopped, tickPending, wgDone, locals, callinfo, batchcall, transport,
                   nextId, accepted, delivered, sinkCloses, anyFail, anyFlush>>

\* bs.flushTicker.Stop()
CloseStopTicker ==
    /\ ~panicked
    /\ pc[Closer] = "stopTicker"
    /\ tickerStopped' = TRUE
    /\ pc' = [pc EXCEPT ![Closer] = "wait"]
    /\ evt' = NoEvent(Closer)
    /\ UNCHANGED <<shared, stopChan, tickPending, wgDone, locals, callinfo, batchcall, transport,
                   ghosts, panicked>>

\* mutant: Close does not wait for the background flusher
CloseSinkNoWait ==
    /\ ~panicked
    /\ pc[Closer] = "wait"
    /\ sinkCloses' = sinkCloses + 1
    /\ pc' = [pc EXCEPT ![Closer] = "idle"]
    /\ evt' = Event(Closer, "close", "nil", "none")
    /\ UNCHANGED <<shared, signals, locals, callinfo, batchcall, transport,
                   nextId, accepted, delivered, closeCalls, anyFail, anyFlush,
                   lateWrite, panicked>>

\* bs.wg.Wait() returns; return bs.sink.Close()
CloseSink ==
    /\ ~panicked
    /\ pc[Closer] = "wait"
    /\ wgDone
    /\ sinkCloses' = sinkCloses + 1
    /\ pc' = [pc EXCEPT ![Closer] = "idle"]
    /\ evt' = Event(Closer, "close", "nil", "none")
    /\ UNCHANGED <<shared, signals, locals, callinfo, batchcall, transport,
                   nextId, accepted, delivered, closeCalls, anyFail, anyFlush,
                   lateWrite, panicked>>

\* ------------------------------------------------------------- transports
\* LokiSink (src/sink/sink.go) and HTTPSink, the two implementations of Sink.
\* A string is a sequence of characters; a word that holds none of the
\* characters JSON escapes ("level", "info") stands for its characters.

\* everything of the BufferedSink, which the transports do not touch
pipeline ==
    <<shared, signals, pc, locals, callinfo, batchcall, evt, ghosts, panicked>>

\* a hostname and a level that hold the text of a JSON member
InjHost == <<"a", "\"", ",", "\"", "level", "\"", ":", "\"", "b">>
InjLevel == <<"b", "\"", ",", "\"", "level", "\"", ":", "\"", "c">>

\* LogEntry: the fields the label set is built from
Levels == {<<"info">>, <<"error">>, <<"c">>, InjLevel}
Hostnames == {<<>>, <<"a">>, InjHost}
LogEntries == [Level : Levels, Hostname : Hostnames]

\* URLs: none, one that parses, one that http.NewRequestWithContext rejects
GoodURL == <<"http://loki:3100/loki/api/v1/push">>
BadURL == <<"%zz">>
URLs == {<<>>, GoodURL, BadURL}

\* LokiSinkConfig.Labels: nil (or empty), or a map that sets the two dynamic
\* labels and "service"
SomeLabels ==
    [k \in {"level", "hostname", "service"} |->
        IF k = "level" THEN <<"x">>
        ELSE IF k = "hostname" THEN <<"h0">> ELSE <<"s0">>]
LabelMaps == {<<>>, SomeLabels}

\* the configs passed to NewLokiSink: nil, or URL, Labels and the Config
\* fields ServiceName, Environment, InstanceID (all empty or all set)
LokiSinkConfigs ==
    {NoConfig} \cup
    {[isNil |-> FALSE, URL |-> u, Labels |-> l,
      ServiceName |-> IF named THEN <<"svc">> ELSE <<>>,
      Environment |-> IF named THEN <<"prod">> ELSE <<>>,
      InstanceID |-> IF named THEN <<"i1">> ELSE <<>>] :
        u \in URLs, l \in LabelMaps, named \in BOOLEAN}

\* the configs passed to NewHTTPSink: nil, or URL, Method and ContentType
HTTPSinkConfigs ==
    {NoConfig} \cup
    {[isNil |-> FALSE, URL |-> u, Method |-> m, ContentType |-> <<>>] :
        u \in URLs, m \in {<<>>, <<"PUT">>}}

\* the response status codes tried
Statuses == {199, 200, 204, 299, 300, 404, 500}

\* labels with labels[k] set to v when it is missing or empty and v is not empty
WithDefault(labels, k, v) ==
    IF v # <<>> /\ (k \notin DOMAIN labels \/ labels[k] = <<>>)
    THEN [x \in DOMAIN labels \cup {k} |-> IF x = k THEN v ELSE labels[x]]
    ELSE labels

\* mutant: the URL is not checked
URLNeverMissing(cfg) == FALSE

\* NewLokiSink, NewHTTPSink: if config.URL == ""
URLMissing(cfg) == cfg.URL = <<>>

\* NewLokiSink(config)
NewLokiSink ==
    /\ newErr = "none"
    /\ \E cfg \in LokiSinkConfigs :
         /\ given' = cfg
         /\ IF cfg.isNil
            THEN /\ newErr' = "config is required"
                 /\ UNCHANGED <<sinkKind, sinkConfig, isHealthy>>
            ELSE IF URLMissing(cfg)
            THEN /\ newErr' = "URL is required"
                 /\ UNCHANGED <<sinkKind, sinkConfig, isHealthy>>
            ELSE /\ sinkConfig' =
                      [cfg EXCEPT !.Labels =
                          WithDefault(
                              WithDefault(
                                  WithDefault(cfg.Labels, "service", cfg.ServiceName),
                                  "environment", cfg.Environment),
                              "instance", cfg.InstanceID)]
                 /\ sinkKind' = "loki"
                 /\ isHealthy' = TRUE
                 /\ newErr' = "nil"
    /\ UNCHANGED <<lastError, entries, streams, response, writeRet, postedTo>>
    /\ UNCHANGED pipeline

\* NewHTTPSink(config)
NewHTTPSink ==
    /\ newErr = "none"
    /\ \E cfg \in HTTPSinkConfigs :
         /\ given' = cfg
         /\ IF cfg.isNil
            THEN /\ newErr' = "config is required"
                 /\ UNCHANGED <<sinkKind, sinkConfig, isHealthy>>
            ELSE IF URLMissing(cfg)
            THEN /\ newErr' = "URL is required"
                 /\ UNCHANGED <<sinkKind, sinkConfig, isHealthy>>
            ELSE /\ sinkConfig' =
                      [cfg EXCEPT
                          !.Method = IF cfg.Method = <<>> THEN <<"POST">> ELSE @,
                          !.ContentType = IF cfg.ContentType = <<>>
                                          THEN <<"application/json">> ELSE @]
                 /\ sinkKind' = "http"
                 /\ isHealthy' = TRUE
                 /\ newErr' = "nil"
    /\ UNCHANGED <<lastError, entries, streams, response, writeRet, postedTo>>
    /\ UNCHANGED pipeline

\* the caller of the transport's WriteBatch adds an entry to its batch
PrepareEntry ==
    /\ sinkKind # "none"
    /\ writeRet = "none"
    /\ Len(entries) < MaxEntries
    /\ \E e \in LogEntries : entries' = Append(entries, e)
    /\ UNCHANGED <<given, sinkKind, sinkConfig, newErr, isHealthy, lastError,
                   streams, response, writeRet, postedTo>>
    /\ UNCHANGED pipeline

\* the caller starts a new batch after WriteBatch returned
NewBatch ==
    /\ writeRet # "none"
    /\ entries' = <<>>
    /\ streams' = <<>>
    /\ response' = NoResponse
    /\ writeRet' = "none"
    /\ UNCHANGED <<given, sinkKind, sinkConfig, newErr, isHealthy, lastError,
                   postedTo>>
    /\ UNCHANGED pipeline

\* buildLabels: the static labels, then level, then hostname when not empty
buildLabels(e) ==
    LET static == sinkConfig.Labels
        withLevel == [k \in DOMAIN static \cup {"level"} |->
                         IF k = "level" THEN e.Level ELSE static[k]]
    IN  IF e.Hostname # <<>>
        THEN [k \in DOMAIN withLevel \cup {"hostname"} |->
                 IF k = "hostname" THEN e.Hostname ELSE withLevel[k]]
        ELSE withLevel

\* encoding/json writes a string between quotes, with a backslash before
\* each quote and each backslash
EscapeChar(c) ==
    IF c = "\"" THEN <<"\\", "\"">>
    ELSE IF c = "\\" THEN <<"\\", "\\">>
    ELSE <<c>>

\* mutant: the characters of a string are written as they are
EscapeNone(str) == str

RECURSIVE Escape(_)
Escape(str) ==
    IF str = <<>> THEN <<>> ELSE EscapeChar(Head(str)) \o Escape(Tail(str))

Quoted(str) == <<"\"">> \o Escape(str) \o <<"\"">>

\* encoding/json writes the members of a map sorted by key
KeyOrder == <<"environment", "hostname", "instance", "level", "service">>
SortedKeys(labels) == SelectSeq(KeyOrder, LAMBDA k : k \in DOMAIN labels)

RECURSIVE Members(_, _)
Members(labels, ks) ==
    IF ks = <<>>
    THEN <<>>
    ELSE Quoted(<<Head(ks)>>) \o <<":">> \o Quoted(labels[Head(ks)])
         \o (IF Len(ks) > 1 THEN <<",">> ELSE <<>>)
         \o Members(labels, Tail(ks))

\* labelsToKey: string(json.Marshal(labels))
labelsToKey(labels) == <<"{">> \o Members(labels, SortedKeys(labels)) \o <<"}">>

\* LokiSink.WriteBatch, the loop over the entries from entry k on: get or
\* create the stream of the entry's key and append the entry's value (here
\* the entry's index in the batch) to it
RECURSIVE GroupEntries(_, _, _)
GroupEntries(batch, k, streamMap) ==
    IF k > Len(batch)
    THEN streamMap
    ELSE LET labels == buildLabels(batch[k])
             streamKey == labelsToKey(labels)
             stream == IF streamKey \in DOMAIN streamMap
                       THEN streamMap[streamKey]
                       ELSE [Stream |-> labels, Values |-> <<>>]
         IN  GroupEntries(batch, k + 1,
                 [x \in DOMAIN streamMap \cup {streamKey} |->
                     IF x = streamKey
                     THEN [stream EXCEPT !.Values = Append(@, k)]
                     ELSE streamMap[x]])

\* mutant: the error is recorded but the health flag is left alone
recordErrorKeepsHealth(err) ==
    /\ isHealthy' = isHealthy
    /\ lastError' = err

\* recordError(err)
recordError(err) ==
    /\ isHealthy' = FALSE
    /\ lastError' = err

\* WriteBatch of both transports from http.NewRequestWithContext on: the
\* request is made for config.URL and sent; a network error and a status
\* outside 200..299 are recorded and returned, a 2xx status marks the
\* transport healthy
Post ==
    IF sinkConfig.URL = BadURL
    THEN /\ recordError("failed to create request")
         /\ writeRet' = "failed to create request"
         /\ UNCHANGED <<response, postedTo>>
    ELSE /\ postedTo' = postedTo \cup {sinkConfig.URL}
         /\ \/ /\ response' = [err |-> TRUE, status |-> 0]
               /\ recordError("failed to send logs")
               /\ writeRet' = "failed to send logs"
            \/ \E st \in Statuses :
                 /\ response' = [err |-> FALSE, status |-> st]
                 /\ IF st < 200 \/ st >= 300
                    THEN /\ recordError("status")
                         /\ writeRet' = "status"
                    ELSE /\ isHealthy' = TRUE
                         /\ writeRet' = "nil"
                         /\ UNCHANGED lastError

\* LokiSink.WriteBatch(ctx, entries)
LokiWriteBatch ==
    /\ sinkKind = "loki"
    /\ writeRet = "none"
    /\ IF Len(entries) = 0
       THEN /\ writeRet' = "nil"
            /\ UNCHANGED <<isHealthy, lastError, streams, response, postedTo>>
       ELSE /\ streams' = GroupEntries(entries, 1, <<>>)
            /\ Post
    /\ UNCHANGED <<given, sinkKind, sinkConfig, newErr, entries>>
    /\ UNCHANGED pipeline

\* HTTPSink.WriteBatch(ctx, entries)
HTTPWriteBatch ==
    /\ sinkKind = "http"
    /\ writeRet = "none"
    /\ IF Len(entries) = 0
       THEN /\ writeRet' = "nil"
            /\ UNCHANGED <<isHealthy, lastError, response, postedTo>>
       ELSE Post
    /\ UNCHANGED <<given, sinkKind, sinkConfig, newErr, entries, streams>>
    /\ UNCHANGED pipeline

\* IsHealthy of the transport, and of the BufferedSink that wraps it
\* (`return bs.sink.IsHealthy()`)
SinkIsHealthy == isHealthy
BufferedSinkIsHealthy == SinkIsHealthy

\* LastError of the transport
LastError == lastError

\* ------------------------------------------------------------------- Next
Next ==
    \/ \E w \in Writers : WriteCall(w)
    \/ \E w \in Writers : FlushCall(w)
    \/ \E p \in Workers : AttemptOk(p)
    \/ \E p \in Workers : AttemptFail(p)
    \/ \E p \in Workers : BackoffTimer(p)
    \/ \E p \in Workers : BackoffCtx(p)
    \/ \E p \in Workers : BackoffStop(p)
    \/ Tick
    \/ SelectTick
    \/ SelectStop
    \/ FlusherFlush
    \/ CloseCall
    \/ CloseStopTicker
    \/ CloseSink

Spec == Init /\ [][Next]_vars

\* The scheduling the code relies on: a transport call returns, a select
\* with a ready case is left (the backoff timer fires, a closed stopChan is
\* seen), Close goes on from one statement to the next, and a goroutine
\* waiting in bufferMu.Lock() gets the mutex when it is released again and
\* again (sync.Mutex hands the mutex to a waiter that starves).
Fairness ==
    /\ \A p \in Workers : WF_vars(AttemptOk(p) \/ AttemptFail(p))
    /\ \A p \in Workers :
          WF_vars(BackoffTimer(p) \/ BackoffCtx(p) \/ BackoffStop(p))
    /\ WF_vars(SelectTick \/ SelectStop)
    /\ SF_vars(FlusherFlush)
    /\ WF_vars(CloseStopTicker)
    /\ WF_vars(CloseSink)

SpecFair == Spec /\ Fairness

\* A sink that is not closed and whose timer does not fire, on which the
\* writer goroutines call WriteBatch (a list of one entry is a single Write).
NextWB ==
    \/ \E w \in Writers : WriteBatchCall(w)
    \/ \E w \in Writers : BatchWrite(w)
    \/ \E p \in Workers : AttemptOk(p)
    \/ \E p \in Workers : AttemptFail(p)
    \/ \E p \in Workers : BackoffTimer(p)
    \/ \E p \in Workers : BackoffCtx(p)

SpecWB == Init /\ [][NextWB]_vars

\* A transport on its own: one constructor call, then WriteBatch calls on
\* batches its caller puts together.  The BufferedSink is left out.
InitT ==
    /\ Init
    /\ config = [BufferSize |-> 1, MaxBatchSize |-> 1, MaxRetries |-> 0,
                 DropOnFull |-> FALSE]

NextT ==
    \/ NewLokiSink
    \/ NewHTTPSink
    \/ PrepareEntry
    \/ NewBatch
    \/ LokiWriteBatch
    \/ HTTPWriteBatch

SpecT == InitT /\ [][NextT]_vars

TypeOK ==
    /\ bufferMu \in Workers \cup {NoOne}
    /\ sentCount \in 0..MaxWrites
    /\ droppedCount \in 0..MaxWrites
    /\ Len(buffer) <= MaxWrites

\* ------------------------------------------------------------- properties
\* the step is a call of Write by w (it may return in the same step)
IsWriteCall(w) == pc[w] = "idle" /\ nextId' = nextId + 1 /\ evt'.who = w

\* the state follows the return of a writer's Write / of a writer's Flush
WriteReturned == evt.who \in Writers /\ evt.from \in {"drop", "append", "full", "batch"}
FlushReturnedNil == evt.who \in Writers /\ evt.from = "flush" /\ evt.ret = "nil"

\* C1: with a transport that always succeeds, DropOnFull = false and
\* 1 <= MaxBatchSize <= BufferSize, after n Write calls on a fresh sink and no
\* flush by timer or by hand, Stats reports sent = MaxBatchSize * (n div
\* MaxBatchSize), dropped = 0 and buffered = n mod MaxBatchSize; and when an
\* explicit Flush then returns, sent = n and buffered = 0 (dropped still 0).
C1_SequentialWrites ==
    (/\ AtRest
     /\ ~anyFail
     /\ ~config.DropOnFull
     /\ config.MaxBatchSize <= config.BufferSize)
    => /\ ~anyFlush =>
            /\ Stats.sent = config.MaxBatchSize * (nextId \div config.MaxBatchSize)
            /\ Stats.dropped = 0
            /\ Stats.buffered = nextId % config.MaxBatchSize
       /\ FlushReturnedNil =>
            /\ Stats.sent = nextId
            /\ Stats.dropped = 0
            /\ Stats.buffered = 0

\* C1 witness: three writes with MaxBatchSize = BufferSize = 2 and a healthy
\* transport, then an explicit Flush that delivered the one buffered entry
C1_Witness ==
    /\ FlushReturnedNil
    /\ evt.chunk = "nil"
    /\ ~anyFail
    /\ ~config.DropOnFull
    /\ config.MaxBatchSize = 2
    /\ config.BufferSize = 2
    /\ nextId = 3
    /\ delivered = <<1, 2, 3>>
    /\ Stats.sent = 3
    /\ Stats.buffered = 0

\* C2 as stated: for every configuration, on a sink whose transport always
\* succeeds and whose buffer was empty, when the MaxBatchSize-th Write
\* returns sent has grown by MaxBatchSize and buffered is 0.
C2_EveryConfiguration ==
    (/\ AtRest
     /\ ~anyFail
     /\ ~anyFlush
     /\ nextId > 0
     /\ nextId % config.MaxBatchSize = 0)
    => /\ Stats.sent = nextId
       /\ Stats.buffered = 0

\* C2 amended: the same for the configurations with MaxBatchSize <= BufferSize;
\* the Write that completes a batch returns nil from the flush it triggered.
C2_BatchTriggersFlush ==
    (/\ AtRest
     /\ ~anyFail
     /\ ~anyFlush
     /\ config.MaxBatchSize <= config.BufferSize
     /\ nextId > 0
     /\ nextId % config.MaxBatchSize = 0)
    => /\ Stats.sent = nextId
       /\ Stats.buffered = 0
       /\ WriteReturned =>
            /\ evt.from = "batch"
            /\ evt.ret = "nil"
            /\ evt.chunk = "nil"

\* C2 witness: the second Write of a batch of two has just returned
C2_Witness ==
    /\ WriteReturned
    /\ evt.from = "batch"
    /\ ~anyFail
    /\ ~anyFlush
    /\ config.MaxBatchSize = 2
    /\ config.BufferSize = 2
    /\ nextId = 2
    /\ Stats.sent = 2
    /\ Stats.buffered = 0

\* C3: with DropOnFull = true, a Write issued while the buffer holds
\* BufferSize entries adds exactly 1 to dropped, leaves the buffer contents
\* and sent unchanged, makes no transport call, waits for nothing (it
\* returns in the step that took the mutex) and returns nil.
C3_DropOnFull ==
    [][\A w \in Writers :
        (/\ IsWriteCall(w)
         /\ config.DropOnFull
         /\ Len(buffer) = config.BufferSize)
        => /\ droppedCount' = droppedCount + 1
           /\ buffer' = buffer
           /\ sentCount' = sentCount
           /\ delivered' = delivered
           /\ accepted' = accepted
           /\ pc'[w] = "idle"
           /\ bufferMu' = NoOne
           /\ evt'.ret = "nil"]_vars

\* C3 witness: a Write has just dropped its entry at a full buffer
C3_Witness ==
    /\ evt.from = "drop"
    /\ config.DropOnFull
    /\ Len(buffer) = config.BufferSize
    /\ droppedCount >= 1
    /\ pc[evt.who] = "idle"

\* the step is the return of a Write by w that made a transport call
IsWriteReturn(w) == pc[w] # "idle" /\ pc'[w] = "idle" /\ entry[w] # 0

\* C4: with DropOnFull = false and a transport that succeeds (no attempt
\* made during the call fails), a Write issued while the buffer holds
\* BufferSize entries flushes first and loses nothing: when it returns nil,
\* the entries buffered before the call have been delivered, in order and
\* before the new entry, and are counted in sent, and the new entry has been
\* accepted and is either the only buffered entry or delivered too.
C4_FullBufferFlushesFirst ==
    [][\A w \in Writers :
        (/\ IsWriteReturn(w)
         /\ ~config.DropOnFull
         /\ Len(found[w].buffer) = config.BufferSize
         /\ ~found[w].failed
         /\ evt'.chunk = "nil")
        => LET e == entry[w]
               sentNow == IF e \in Range(buffer')
                          THEN found[w].buffer
                          ELSE Append(found[w].buffer, e)
           IN  /\ evt'.ret = "nil"
               /\ Len(delivered') >= Len(sentNow)
               /\ Suffix(delivered', Len(sentNow)) = sentNow
               /\ sentCount' = found[w].sent + Len(sentNow)
               /\ droppedCount' = found[w].dropped
               /\ e \in accepted'
               /\ e \in Range(buffer') => buffer' = <<e>>]_vars

\* C4 witness: BufferSize = 1 < MaxBatchSize = 2; the second Write found
\* entry 1 in the full buffer, flushed it and has returned with entry 2 buffered
C4_Witness ==
    /\ WriteReturned
    /\ evt.from = "append"
    /\ evt.ret = "nil"
    /\ evt.chunk = "nil"
    /\ ~config.DropOnFull
    /\ config.BufferSize = 1
    /\ config.MaxBatchSize = 2
    /\ nextId = 2
    /\ delivered = <<1>>
    /\ buffer = <<2>>
    /\ sentCount = 1

\* the backoff waits of a chunk whose every attempt failed
BackoffWaits == [k \in 1..config.MaxRetries |-> RetryInterval * Pow2(k - 1)]

\* C5: when every transport call fails and neither the context is cancelled
\* nor shutdown signalled, retryWriteBatch ends after exactly MaxRetries + 1
\* calls of the transport's WriteBatch and reports the error; the wait before
\* the k-th retry was RetryInterval * 2^(k-1), and none preceded the first call.
C5_RetryExhaustion ==
    [][\A p \in Workers :
        (/\ pc[p] = "attempt"
         /\ evt'.who = p
         /\ evt'.chunk = "err")
        => /\ calls[p] + 1 = config.MaxRetries + 1
           /\ waits[p] = BackoffWaits
           /\ Len(waits[p]) = calls[p]
           /\ evt'.ret = "err"]_vars

\* C5 witness: a chunk has just failed for good with MaxRetries = MaxMaxRetries
\* and stopChan open
C5_Witness ==
    /\ evt.chunk = "err"
    /\ evt.ret = "err"
    /\ config.MaxRetries = MaxMaxRetries
    /\ ~stopChan

Places(e) ==
    {pl \in {"buffer", "transport", "rejected"} :
        \/ pl = "buffer" /\ e \in Range(buffer)
        \/ pl = "transport" /\ e \in Range(delivered)
        \/ pl = "rejected" /\ e \notin accepted}

\* C7: no data is lost under transient transport failure: with DropOnFull =
\* false and no Close, whenever no operation is in progress every entry
\* passed to Write is in exactly one place (the buffer, a transport call
\* that returned nil, the dropped count, a Write that turned it away), and
\* the number of entries accepted is sent + dropped + buffered.
C7_NoDataLost ==
    (/\ AtRest
     /\ ~config.DropOnFull
     /\ ~stopChan)
    => /\ \A e \in 1..nextId : Cardinality(Places(e)) = 1
       /\ Cardinality(accepted) = Stats.sent + Stats.dropped + Stats.buffered

\* C8: writers are not blocked by deliveries: while a worker is inside a
\* transport WriteBatch call or a backoff wait of its flush, another
\* goroutine can take the mutex for a Write on the (non-full) buffer.
C8_WritersNotBlocked ==
    \A p \in Workers : \A w \in Writers \ {p} :
        (/\ pc[p] \in {"attempt", "backoff"}
         /\ pc[w] = "idle"
         /\ ~BufferFull(buffer)
         /\ nextId < MaxWrites
         /\ ~panicked)
        => ENABLED WriteCall(w)

\* C9: calling Close twice does not panic and does not close the wrapped
\* transport a second time.
C9_CloseTwice ==
    closeCalls >= 2 => (~panicked /\ sinkCloses <= 1)

\* the Close calls that have run to their end
ClosesReturned ==
    closeCalls - (IF pc[Closer] # "idle" THEN 1 ELSE 0) - (IF panicked THEN 1 ELSE 0)

C11_FinalFlush ==
    (/\ sinkCloses >= 1
     /\ ~anyFail
     /\ ~lateWrite)
    => /\ Stats.buffered = 0
       /\ Range(delivered) = accepted
       /\ Len(delivered) = Cardinality(accepted)
       /\ Stats.sent = Cardinality(accepted)
       /\ \A p \in Workers : toSend[p] = <<>>

\* C11 witness: Close has just returned; entries 1 and 2 went out as a batch
\* and entry 3, buffered when Close was called, in the final flush
C11_Witness ==
    /\ evt.who = Closer
    /\ evt.from = "close"
    /\ ~anyFail
    /\ ~lateWrite
    /\ config.MaxBatchSize = 2
    /\ config.BufferSize = 2
    /\ nextId = 3
    /\ delivered = <<1, 2, 3>>
    /\ sentCount = 3
    /\ buffer = <<>>

InFlush(p) == pc[p] \in {"attempt", "backoff"}

\* C13: a flush drains the whole buffer: its snapshot is the buffer as the
\* flush found it (with the entry the Write had just appended), the live
\* buffer is empty from the snapshot to the end of the flush and the worker
\* holds bufferMu all along, nothing is appended and the snapshot does not
\* change while the flush goes on, and when the flush returns nil the buffer
\* is empty (a capacity-triggered flush is followed at once by the append of
\* the Write's own entry, which is then all there is).
C13_FlushDrainsAll ==
    [][\A p \in Workers :
        /\ (~InFlush(p) /\ InFlush(p)')
           => /\ toSend'[p] = buffer \o (IF accepted' # accepted
                                         THEN <<entry'[p]>> ELSE <<>>)
              /\ i'[p] = 0
              /\ calls'[p] = 0
        /\ InFlush(p)' => (buffer' = <<>> /\ bufferMu' = p)
        /\ (InFlush(p) /\ InFlush(p)' /\ site'[p] = site[p])
           => (accepted' = accepted /\ toSend'[p] = toSend[p])
        /\ (/\ InFlush(p)
            /\ evt'.who = p
            /\ evt'.chunk \in {"nil", "stop"}
            /\ ~(InFlush(p)' /\ site'[p] = site[p]))
           => IF site[p] = "full"
              THEN buffer' \o toSend'[p] = <<entry[p]>>
              ELSE buffer' = <<>> /\ ~InFlush(p)']_vars

\* C13 witness: with MaxBatchSize = 1 a flush by hand or by timer has just
\* delivered a snapshot of two entries in two chunks and returned nil
C13_Witness ==
    /\ evt.from \in {"flush", "tick"}
    /\ evt.ret = "nil"
    /\ evt.chunk = "nil"
    /\ config.MaxBatchSize = 1
    /\ delivered = <<1, 2>>
    /\ sentCount = 2
    /\ buffer = <<>>
    /\ AtRest

\* C15 as stated: after k Write calls on a fresh sink, k <= BufferSize - 1,
\* with no explicit and no timer-triggered flush, Stats reports buffered = k.
C15_BelowBufferSize ==
    (/\ AtRest
     /\ ~anyFlush
     /\ nextId <= config.BufferSize - 1)
    => Stats.buffered = nextId

\* C15 amended: the same for k <= BufferSize - 1 and k <= MaxBatchSize - 1
\* (the k-th Write with k = MaxBatchSize flushes the buffer by itself);
\* nothing has been sent or dropped either.
C15_BelowBothThresholds ==
    (/\ AtRest
     /\ ~anyFlush
     /\ nextId <= config.BufferSize - 1
     /\ nextId <= config.MaxBatchSize - 1)
    => /\ Stats.buffered = nextId
       /\ Stats.sent = 0
       /\ Stats.dropped = 0
       /\ buffer = [k \in 1..nextId |-> k]

\* C15 witness: one Write with BufferSize = MaxBatchSize = 2 has returned
C15_Witness ==
    /\ AtRest
    /\ ~anyFlush
    /\ evt.from = "append"
    /\ config.BufferSize = 2
    /\ config.MaxBatchSize = 2
    /\ nextId = 1
    /\ Stats.buffered = 1

\* C16: a full buffer is no error by itself.  A Write returns a non-nil
\* error only from a flush it made (at a full buffer or at a full batch), and
\* only when the last allowed attempt of a chunk has just failed (MaxRetries
\* failed calls before it) or the context was cancelled in a backoff wait;
\* a Write that drops its entry returns nil; and whenever the flush made by
\* a Write fails, the Write returns that flush's error.
C16_WriteErrors ==
    [][\A w \in Writers :
        (evt'.who = w /\ evt'.from \in {"drop", "append", "full", "batch"})
        => /\ evt'.ret # "nil"
              => /\ evt'.from \in {"full", "batch"}
                 /\ \/ /\ pc[w] = "attempt"
                       /\ calls[w] = config.MaxRetries
                       /\ evt'.ret = "err"
                    \/ /\ pc[w] = "backoff"
                       /\ evt'.ret = "ctx"
           /\ evt'.from = "drop" => evt'.ret = "nil"
           /\ (InFlush(w) /\ evt'.chunk \in {"err", "ctx"})
              => evt'.ret = evt'.chunk]_vars

\* C16 witness: a Write that found the buffer full has returned the error of
\* the flush it made, after MaxMaxRetries retries
C16_Witness ==
    /\ evt.who \in Writers
    /\ evt.from = "full"
    /\ evt.ret = "err"
    /\ ~config.DropOnFull
    /\ config.MaxRetries = MaxMaxRetries
    /\ Len(buffer) = config.BufferSize

\* C17: the background flush is best effort.  When a timer-triggered flush
\* fails, no caller gets the error (no writer moves, the process does not
\* panic), the flusher releases bufferMu and is back in its select, not
\* exited; the failure shows in the counters and the buffer only (the chunk
\* is put back, or counted as dropped).  The flusher exits only once
\* shutdown has been signalled, and until then it takes every tick that is
\* waiting when it is in its select and flushes as soon as bufferMu is free.
C17_BestEffort ==
    /\ [][(evt'.who = Flusher /\ evt'.from = "tick" /\ evt'.ret # "nil")
          => /\ pc'[Flusher] = "select"
             /\ ~wgDone'
             /\ ~panicked'
             /\ bufferMu' = NoOne
             /\ \A w \in Writers : pc'[w] = pc[w]
             /\ sentCount' = sentCount
             /\ IF config.DropOnFull
                THEN buffer' = <<>> /\ droppedCount' = droppedCount + Len(Batch(Flusher))
                ELSE buffer' = Batch(Flusher) /\ droppedCount' = droppedCount]_vars
    /\ []((pc[Flusher] = "done" \/ wgDone) => stopChan)
    /\ []((pc[Flusher] = "select" /\ tickPending /\ ~panicked)
            => ENABLED SelectTick)
    /\ []((pc[Flusher] = "lock" /\ bufferMu = NoOne /\ ~panicked)
            => ENABLED FlusherFlush)

\* C17 witness: a timer-triggered flush has just failed; the flusher is back
\* in its select with the entry put back, and shutdown has not been signalled
C17_Witness ==
    /\ evt.who = Flusher
    /\ evt.from = "tick"
    /\ evt.ret = "err"
    /\ pc[Flusher] = "select"
    /\ ~config.DropOnFull
    /\ buffer = <<1>>
    /\ ~stopChan

\* C14: WriteBatch applies Write to the entries in list order and stops at
\* the first Write that returns an error.  Each Write of a WriteBatch is
\* called on the entry that follows the last one written, after that one's
\* Write returned nil; when WriteBatch returns, Write has been called on the
\* entries 1..k and on no other, every Write before the k-th returned nil,
\* WriteBatch returns what the k-th Write returned, it returns nil only with
\* k = the length of the list, and no Write of that list follows.
C14_WriteBatch ==
    [][\A w \in Writers :
        /\ (applied'[w] # applied[w] /\ applied'[w] # <<>>)
           => /\ applied'[w] = Append(applied[w], Len(applied[w]) + 1)
              /\ Range(todo'[w]) \cap Range(applied'[w]) = {}
              /\ applied[w] # <<>> => (evt'.who = w /\ evt'.ret = "nil")
        /\ (evt'.who = w /\ evt'.batch # "none")
           => LET k == Len(applied[w])
              IN  /\ applied[w] = [j \in 1..k |-> j]
                  /\ results[w] = [j \in 1..(k - 1) |-> "nil"]
                  /\ evt'.batch = (IF k = 0 THEN "nil" ELSE evt'.ret)
                  /\ evt'.batch = "nil" => todo[w] = <<>>
                  /\ todo[w] # <<>> => evt'.ret \in {"err", "ctx"}
                  /\ todo'[w] = <<>>
                  /\ applied'[w] = <<>>
                  /\ pc'[w] = "idle"]_vars

\* C14 witness: a WriteBatch has returned the error of the Write of its
\* second entry (a flush at a full batch that failed and put the two entries
\* back); no third Write was made
C14_Witness ==
    /\ evt.batch = "err"
    /\ evt.from = "batch"
    /\ nextId = 2
    /\ config.MaxBatchSize = 2
    /\ ~config.DropOnFull
    /\ buffer = <<1, 2>>
    /\ \A w \in Writers : pc[w] = "idle" /\ applied[w] = <<>> /\ todo[w] = <<>>

\* the step is a WriteBatch call of the transport (it returns in the step)
IsTransportWrite == writeRet = "none" /\ writeRet' # "none"

\* C18: the health flag of a transport reflects its last completed delivery
\* call.  A new transport is healthy (and has no LastError); a WriteBatch of
\* a non-empty batch that ends in a network error or in a status outside
\* 200..299 returns an error and leaves IsHealthy false and LastError
\* non-nil; one that ends in a 2xx status returns nil and leaves IsHealthy
\* true; IsHealthy is true exactly if the last call that made a request (or
\* failed to build one) returned nil, a WriteBatch of an empty batch changing
\* nothing; BufferedSink.IsHealthy is the transport's IsHealthy.
C18_HealthFlag ==
    /\ [][/\ (newErr = "none" /\ newErr' = "nil")
             => (SinkIsHealthy' /\ LastError' = "nil")
          /\ (IsTransportWrite /\ entries # <<>>)
             => /\ (response'.err \/ (response' # NoResponse
                                       /\ response'.status \notin 200..299))
                   => /\ ~SinkIsHealthy'
                      /\ LastError' # "nil"
                      /\ writeRet' # "nil"
                /\ (~response'.err /\ response'.status \in 200..299)
                   => (SinkIsHealthy' /\ writeRet' = "nil")
                /\ SinkIsHealthy' <=> writeRet' = "nil"
          /\ (IsTransportWrite /\ entries = <<>>)
             => /\ SinkIsHealthy' = SinkIsHealthy
                /\ LastError' = LastError
                /\ writeRet' = "nil"
          /\ ~IsTransportWrite /\ newErr # "none"
             => (SinkIsHealthy' = SinkIsHealthy /\ LastError' = LastError)]_vars
    /\ [](BufferedSinkIsHealthy = SinkIsHealthy)
    /\ [](~SinkIsHealthy /\ sinkKind # "none" => LastError # "nil")

\* C18 witness: a LokiSink that failed earlier has delivered a batch with a
\* 2xx status and is healthy again
C18_Witness ==
    /\ sinkKind = "loki"
    /\ entries # <<>>
    /\ response.status = 204
    /\ writeRet = "nil"
    /\ SinkIsHealthy
    /\ LastError = "failed to send logs"

\* C19: a missing configuration fails the construction.  NewLokiSink and
\* NewHTTPSink called with a nil config or with an empty URL return an error
\* and no sink; a sink that exists holds a non-empty URL, and every HTTP
\* request is made by a constructed sink, for a non-empty URL.
C19_ConstructionFails ==
    /\ (newErr # "none" /\ (given.isNil \/ given.URL = <<>>))
       => /\ newErr \in {"config is required", "URL is required"}
          /\ sinkKind = "none"
          /\ sinkConfig = NoConfig
    /\ sinkKind # "none"
       => /\ newErr = "nil"
          /\ ~sinkConfig.isNil
          /\ sinkConfig.URL # <<>>
          /\ sinkConfig.URL = given.URL
    /\ newErr \notin {"none", "nil"} => sinkKind = "none"
    /\ sinkKind = "none" => (writeRet = "none" /\ postedTo = {})
    /\ <<>> \notin postedTo

\* C19 witness: NewLokiSink was called with a config whose URL is empty
C19_Witness ==
    /\ newErr = "URL is required"
    /\ ~given.isNil
    /\ given.URL = <<>>
    /\ given.Labels = SomeLabels
    /\ sinkKind = "none"

\* the label set the claim gives an entry: the static labels, overridden by
\* level = entry.Level and, when the hostname is not empty, by hostname
LabelSet(e) ==
    LET dyn == IF e.Hostname = <<>> THEN {"level"} ELSE {"level", "hostname"}
    IN  [k \in DOMAIN sinkConfig.Labels \cup dyn |->
            IF k \in dyn
            THEN (IF k = "level" THEN e.Level ELSE e.Hostname)
            ELSE sinkConfig.Labels[k]]

\* the keys of the streams whose values hold the entry at index k
StreamsOf(k) == {x \in DOMAIN streams : k \in Range(streams[x].Values)}

\* C20: LokiSink.WriteBatch partitions the batch by label set.  Every entry
\* is in exactly one stream, whose labels are the entry's label set; two
\* entries are in the same stream exactly if their label sets are equal; no
\* stream is empty; the values of a stream are in batch order, each once;
\* and two entries with levels info and error and the same hostname give two
\* streams.
C20_StreamsPartition ==
    (sinkKind = "loki" /\ writeRet # "none" /\ entries # <<>>)
    => LET n == Len(entries)
       IN  /\ \A k \in 1..n :
                /\ Cardinality(StreamsOf(k)) = 1
                /\ \A x \in StreamsOf(k) : streams[x].Stream = LabelSet(entries[k])
           /\ \A j, k \in 1..n :
                (LabelSet(entries[j]) = LabelSet(entries[k]))
                <=> (StreamsOf(j) = StreamsOf(k))
           /\ \A x \in DOMAIN streams :
                LET v == streams[x].Values
                IN  /\ v # <<>>
                    /\ Range(v) \subseteq 1..n
                    /\ \A a, b \in 1..Len(v) : a < b => v[a] < v[b]
           /\ (/\ n = 2
               /\ {entries[1].Level, entries[2].Level} = {<<"info">>, <<"error">>}
               /\ entries[1].Hostname = entries[2].Hostname)
              => Cardinality(DOMAIN streams) = 2

\* C20 witness: a batch of an info and an error entry of the same host gave
\* two streams, under static labels that set level and hostname themselves
C20_Witness ==
    /\ sinkKind = "loki"
    /\ writeRet = "nil"
    /\ Len(entries) = 2
    /\ entries[1] = [Level |-> <<"info">>, Hostname |-> <<"a">>]
    /\ entries[2] = [Level |-> <<"error">>, Hostname |-> <<"a">>]
    /\ Cardinality(DOMAIN streams) = 2
    /\ given.Labels = SomeLabels

\* the chunks of p's snapshot that follow the chunk p is handling
LaterChunks(p) == SubSeq(toSend[p], ChunkEnd(p) + 1, Len(toSend[p]))

\* entry e is in the hands of the pipeline: buffered or in a flush's snapshot
InPipeline(e) == e \in Range(buffer) \/ \E q \in Workers : e \in Range(toSend[q])

\* C21: when a snapshot spans several chunks and a chunk fails for good, the
\* flush ends there and the chunks after it are lost: they are not passed to
\* the transport, not appended to the live buffer and not added to dropped
\* (dropped grows by the failing chunk alone, and only with DropOnFull), sent
\* does not move, and no snapshot holds them any more; and an accepted entry
\* that is neither buffered, nor in a snapshot, nor delivered stays so.
C21_LaterChunksLost ==
    /\ [][\A p \in Workers :
            (/\ InFlush(p)
             /\ evt'.who = p
             /\ evt'.chunk \in {"err", "ctx"}
             /\ LaterChunks(p) # <<>>)
            => /\ ~InFlush(p)'
               /\ delivered' = delivered
               /\ Range(LaterChunks(p)) \cap Range(delivered') = {}
               /\ Range(LaterChunks(p)) \cap Range(buffer') = {}
               /\ \A e \in Range(LaterChunks(p)) : e \in accepted' /\ ~InPipeline(e)'
               /\ sentCount' = sentCount
               /\ droppedCount' = droppedCount
                     + (IF config.DropOnFull THEN Len(Batch(p)) ELSE 0)
               /\ Len(buffer') = Len(buffer)
                     + (IF config.DropOnFull THEN 0 ELSE Len(Batch(p)))]_vars
    /\ [][\A e \in accepted :
            (~InPipeline(e) /\ e \notin Range(delivered))
            => (~InPipeline(e)' /\ e \notin Range(delivered'))]_vars

\* C21 witness: MaxBatchSize = 1, BufferSize = 2, no Close: the flush of
\* <<1, 2>> has failed on its first chunk; entry 1 is back in the buffer and
\* entry 2 is nowhere, with sent = dropped = 0
C21_Witness ==
    /\ AtRest
    /\ evt.chunk = "err"
    /\ ~config.DropOnFull
    /\ config.MaxBatchSize = 1
    /\ config.BufferSize = 2
    /\ ~stopChan
    /\ nextId = 2
    /\ accepted = {1, 2}
    /\ buffer = <<1>>
    /\ delivered = <<>>
    /\ sentCount = 0
    /\ droppedCount = 0
    /\ ~InPipeline(2)

\* C22: when the transport succeeds on the k-th attempt of a chunk
\* (1 <= k <= MaxRetries + 1, after k - 1 failed calls and k - 1 waits), the
\* chunk is passed to the transport no more, sent grows by the size of the
\* chunk in that step, and the flush goes on with the chunk that follows in
\* the snapshot (first attempt, no wait) or, after the last chunk, returns
\* nil; all along a flush sent is its value at the snapshot plus the entries
\* of the chunks done, so each chunk is counted once.
C22_SuccessEndsRetries ==
    /\ [][\A p \in Workers :
            (/\ pc[p] = "attempt"
             /\ evt'.who = p
             /\ evt'.chunk = "nil")
            => /\ calls[p] + 1 \in 1..(config.MaxRetries + 1)
               /\ Len(waits[p]) = calls[p]
               /\ evt'.tries = calls[p] + 1
               /\ delivered' = delivered \o Batch(p)
               /\ sentCount' = sentCount + Len(Batch(p))
               /\ droppedCount' = droppedCount
               /\ IF LaterChunks(p) # <<>>
                  THEN /\ pc'[p] = "attempt"
                       /\ toSend'[p] = toSend[p]
                       /\ i'[p] = ChunkEnd(p)
                       /\ calls'[p] = 0
                       /\ attempt'[p] = 0
                       /\ waits'[p] = <<>>
                       /\ Batch(p)' = SubSeq(LaterChunks(p), 1,
                                             Min(config.MaxBatchSize,
                                                 Len(LaterChunks(p))))
                       /\ buffer' = buffer
                  ELSE /\ evt'.ret \in {"nil", "none"}
                       /\ evt'.ret = "none"
                          => (site[p] = "full" /\ site'[p] = "batch")
                       /\ site[p] # "full" => (bufferMu' = NoOne /\ buffer' = <<>>)]_vars
    /\ [](\A p \in Workers : InFlush(p) => sentCount = sentAtStart[p] + i[p])

\* C22 witness: MaxBatchSize = 1, MaxRetries = MaxMaxRetries: the first chunk
\* of the snapshot <<1, 2>> went through at the last attempt allowed and the
\* worker is in its first attempt for the second chunk
C22_Witness ==
    /\ evt.chunk = "nil"
    /\ evt.tries = MaxMaxRetries + 1
    /\ config.MaxRetries = MaxMaxRetries
    /\ config.MaxBatchSize = 1
    /\ pc[evt.who] = "attempt"
    /\ toSend[evt.who] = <<1, 2>>
    /\ i[evt.who] = 1
    /\ calls[evt.who] = 0
    /\ delivered = <<1>>
    /\ sentCount = 1

\* C23: the retry waits can be cancelled.  A worker in a backoff wait can
\* always leave it by the cancellation of its context, and by the shutdown
\* signal once that is given (the timer then no longer wins); the transport
\* is called again for the chunk only after the timer fired with stopChan
\* open.  Leaving by either signal makes no transport call; by the context,
\* retryWriteBatch returns the context's error and the chunk is handled as a
\* failed chunk (put back or counted as dropped, the flush returns that
\* error); by the shutdown signal it returns without an error and the flush
\* goes on after the chunk.
C23_WaitsCancellable ==
    /\ [][\A p \in Workers :
            (pc[p] = "backoff" /\ evt'.who = p)
            => /\ evt'.chunk \in {"none", "ctx", "stop"}
               /\ delivered' = delivered
               /\ calls'[p] \in {calls[p], 0}
               /\ evt'.chunk = "none"
                  => /\ ~stopChan
                     /\ pc'[p] = "attempt"
                     /\ waits'[p] = Append(waits[p], retryInterval[p])
                     /\ Batch(p)' = Batch(p)
               /\ stopChan => evt'.chunk \in {"ctx", "stop"}
               /\ evt'.chunk = "ctx"
                  => /\ evt'.ret = "ctx"
                     /\ ~InFlush(p)'
                     /\ bufferMu' = NoOne
                     /\ sentCount' = sentCount
                     /\ IF config.DropOnFull
                        THEN /\ buffer' = buffer
                             /\ droppedCount' = droppedCount + Len(Batch(p))
                        ELSE /\ buffer' = buffer \o Batch(p)
                             /\ droppedCount' = droppedCount
               /\ evt'.chunk = "stop"
                  => /\ stopChan
                     /\ evt'.ret \in {"nil", "none"}
                     /\ droppedCount' = droppedCount
                     /\ Range(Batch(p)) \cap Range(buffer') = {}
                     /\ InFlush(p)' => (pc'[p] = "attempt" /\ calls'[p] = 0
                                         /\ Batch(p)' # Batch(p))]_vars
    /\ [](\A p \in Workers :
            (pc[p] = "backoff" /\ ~panicked)
            => /\ ENABLED BackoffCtx(p)
               /\ stopChan => (ENABLED BackoffStop(p) /\ ~ENABLED BackoffTimer(p)))

\* C23 witness: with MaxRetries = MaxMaxRetries the context was cancelled in
\* the wait that followed the first failed call; the flush has returned the
\* context's error and put the chunk back
C23_Witness ==
    /\ evt.chunk = "ctx"
    /\ evt.ret = "ctx"
    /\ evt.tries = 1
    /\ config.MaxRetries = MaxMaxRetries
    /\ ~config.DropOnFull
    /\ AtRest
    /\ buffer = <<1>>
    /\ delivered = <<>>
    /\ sentCount = 0

\* the sites of an explicit Flush and of the flusher's two Flush calls
FlushSites == {"flush", "tick", "final"}

\* C24: every WriteBatch call made on the transport carries between 1 and
\* MaxBatchSize entries, whichever flush makes it (at a full buffer, at a
\* full batch, by hand, by the timer, at shutdown): the chunk of a worker
\* inside a flush is a non-empty piece of at most MaxBatchSize entries of
\* its snapshot, and a call that succeeds delivers exactly that piece.  A
\* Flush that finds the buffer empty returns nil in the same step, without
\* a snapshot and without a transport call.
C24_ChunkSize ==
    /\ [](\A p \in Workers :
            InFlush(p)
            => /\ Len(Batch(p)) \in 1..config.MaxBatchSize
               /\ i[p] + Len(Batch(p)) <= Len(toSend[p])
               /\ site[p] \in FlushSites \cup {"full", "batch"})
    /\ [][\A p \in Workers :
            /\ (pc[p] = "attempt" /\ delivered' # delivered /\ evt'.who = p)
               => /\ delivered' = delivered \o Batch(p)
                  /\ Len(delivered') - Len(delivered) \in 1..config.MaxBatchSize
            /\ (/\ ~InFlush(p)
                /\ evt'.who = p
                /\ buffer = <<>>
                /\ \/ evt'.from \in FlushSites
                   \/ (InFlush(p)' /\ site'[p] \in FlushSites))
               => /\ evt'.ret = "nil"
                  /\ evt'.chunk = "none"
                  /\ ~InFlush(p)'
                  /\ delivered' = delivered
                  /\ bufferMu' = NoOne
                  /\ buffer' = <<>>]_vars

\* C24 witness: with MaxBatchSize = 1 a worker is inside the transport call
\* for the second entry of its snapshot <<1, 2>>, the first one delivered
C24_Witness ==
    \E p \in Workers :
        /\ pc[p] = "attempt"
        /\ config.MaxBatchSize = 1
        /\ toSend[p] = <<1, 2>>
        /\ i[p] = 1
        /\ Batch(p) = <<2>>
        /\ delivered = <<1>>

\* C25: the sent counter is exact: whenever no operation is in progress,
\* sent is the number of entries of the transport calls that returned nil,
\* also after a shutdown signal that came during a backoff wait and after a
\* final flush against a failing transport.
C25_SentExact ==
    AtRest => Stats.sent = Len(delivered)

\* the workers inside a transport WriteBatch call
InTransport == {p \in Workers : pc[p] = "attempt"}

Ascending(s) == \A a, b \in 1..Len(s) : a < b => s[a] < s[b]

\* C27: delivery keeps the write order and duplicates nothing.  The entries
\* of the transport calls that returned nil, in call order, are in the order
\* in which their Writes took bufferMu, each at most once, and all of them
\* were accepted by a Write; what is still held (the chunks of a snapshot
\* not yet done, then the buffer) is in that order too and comes after
\* everything delivered.
C27_OrderKept ==
    /\ Ascending(delivered)
    /\ Range(delivered) \subseteq accepted
    /\ accepted \subseteq 1..nextId
    /\ Ascending(buffer)
    /\ \A p \in Workers :
          InFlush(p)
          => Ascending(delivered \o SubSeq(toSend[p], i[p] + 1, Len(toSend[p])))
    /\ AtRest => Ascending(delivered \o buffer)

\* C27 witness: MaxBatchSize = 1, BufferSize = 2: entry 1 was put back by a
\* failed flush and went out later, before entries 2 and 3
C27_Witness ==
    /\ AtRest
    /\ anyFail
    /\ ~config.DropOnFull
    /\ config.MaxBatchSize = 1
    /\ config.BufferSize = 2
    /\ nextId = 3
    /\ delivered = <<1, 2, 3>>
    /\ sentCount = 3
    /\ buffer = <<>>

\* C28: the transport is not used after it was closed: once Close has
\* called the transport's Close, no worker is in, or enters, a WriteBatch
\* call on the transport.
C28_NoUseAfterClose ==
    sinkCloses >= 1 => InTransport = {}

\* C29: Close terminates.  When every transport call returns and the
\* scheduling is fair, a Close call that is in progress eventually returns,
\* and the background flusher has exited by then (wg.Done() has run) and
\* the transport was closed; this from every state a Close call can start
\* in, those where a worker holds bufferMu in a backoff wait included.
C29_CloseTerminates ==
    (pc[Closer] # "idle")
    ~> (/\ pc[Closer] = "idle"
        /\ sinkCloses >= 1
        /\ wgDone
        /\ pc[Flusher] = "done")

\* C29 witness: Close has just been called (stopChan is closed, Close is in
\* front of flushTicker.Stop()) while a writer holds bufferMu in the backoff
\* wait of its flush, and the background flusher is still in its select
C29_Witness ==
    /\ evt.who = Closer
    /\ pc[Closer] = "stopTicker"
    /\ closeCalls = 1
    /\ stopChan
    /\ ~wgDone
    /\ pc[Flusher] = "select"
    /\ \E w \in Writers : pc[w] = "backoff" /\ bufferMu = w

\* C30: with DropOnFull = false, when the flush a Write makes at a full
\* buffer fails, the Write returns the error of the flush and its entry is
\* not accepted: it is not appended to the buffer, it is in no transport
\* call, and sent and dropped do not change on its account (over the whole
\* call sent grew by the chunks of the old buffer that went out before the
\* failure, dropped not at all, and the buffer holds the failing chunk of the
\* old buffer); an entry that was not accepted is never buffered or delivered.
C30_FullFlushFails ==
    /\ [][\A w \in Writers :
            (/\ InFlush(w)
             /\ site[w] = "full"
             /\ evt'.who = w
             /\ evt'.chunk \in {"err", "ctx"})
            => /\ ~config.DropOnFull
               /\ Len(found[w].buffer) >= config.BufferSize
               /\ toSend[w] = found[w].buffer
               /\ evt'.from = "full"
               /\ evt'.ret = evt'.chunk
               /\ pc'[w] = "idle"
               /\ bufferMu' = NoOne
               /\ accepted' = accepted
               /\ entry[w] \notin accepted'
               /\ entry[w] \notin Range(buffer') \cup Range(delivered')
               /\ buffer' = Batch(w)
               /\ sentCount' = sentCount
               /\ sentCount' = found[w].sent + i[w]
               /\ droppedCount' = found[w].dropped]_vars
    /\ [](Range(buffer) \cup Range(delivered) \subseteq accepted)

\* C30 witness: BufferSize = 1, MaxBatchSize = 2: the second Write found
\* entry 1 in the full buffer, its flush failed, and it has returned the
\* error with entry 1 back in the buffer and entry 2 turned away
C30_Witness ==
    /\ evt.who \in Writers
    /\ evt.from = "full"
    /\ evt.ret = "err"
    /\ evt.chunk = "err"
    /\ ~config.DropOnFull
    /\ config.BufferSize = 1
    /\ config.MaxBatchSize = 2
    /\ nextId = 2
    /\ accepted = {1}
    /\ buffer = <<1>>
    /\ delivered = <<>>
    /\ sentCount = 0
    /\ droppedCount = 0
    /\ AtRest

\* C31: with DropOnFull = true and 1 <= MaxBatchSize <= BufferSize the
\* buffer never holds BufferSize entries when no operation is in progress:
\* it holds fewer than MaxBatchSize (a Write that fills a batch flushes, and
\* a flush puts nothing back).  So no Write takes the drop-on-full branch,
\* and dropped grows only in a step in which a chunk fails for good (the
\* last attempt failed, or the context was cancelled in a backoff wait), by
\* the size of that chunk.
C31_NeverFull ==
    /\ []((/\ config.DropOnFull
           /\ config.MaxBatchSize <= config.BufferSize
           /\ AtRest)
          => /\ Len(buffer) < config.MaxBatchSize
             /\ Len(buffer) < config.BufferSize
             /\ ~BufferFull(buffer)
             /\ evt.from # "drop")
    /\ [][(/\ config.DropOnFull
           /\ config.MaxBatchSize <= config.BufferSize)
          => /\ evt'.from # "drop"
             /\ droppedCount' # droppedCount
                => /\ evt'.who \in Workers
                   /\ InFlush(evt'.who)
                   /\ evt'.chunk \in {"err", "ctx"}
                   /\ evt'.chunk = "err" => Tries(evt'.who) = config.MaxRetries + 1
                   /\ droppedCount' = droppedCount + Len(Batch(evt'.who))
                   /\ buffer' = <<>>]_vars

\* C31 witness: DropOnFull with MaxBatchSize = BufferSize = 2: the second
\* Write filled the batch, its flush failed for good and the two entries
\* were counted as dropped; the buffer is empty and no Write dropped its entry
C31_Witness ==
    /\ AtRest
    /\ config.DropOnFull
    /\ config.MaxBatchSize = 2
    /\ config.BufferSize = 2
    /\ evt.from = "batch"
    /\ evt.chunk = "err"
    /\ nextId = 2
    /\ accepted = {1, 2}
    /\ droppedCount = 2
    /\ sentCount = 0
    /\ buffer = <<>>

====
